---------------------------- MODULE Spec2Model ----------------------------
(***************************************************************************)
(* A model of xlsx_diff.py: the shared-string resolver, the column-name    *)
(* successor, the sheet summarizer, the sheet-identity matcher and the     *)
(* diff orchestrator with its coordinate annotation.                       *)
(*                                                                         *)
(* Representation.  A column name is the sequence of its letters, each     *)
(* letter written as ord(letter) - ord('A'), so "AZ" is <<0, 25>>.  A cell *)
(* location such as "C5" is the record [col |-> <<2>>, row |-> 5]: the     *)
(* regular expression ([A-Z]+)\d+ reads .col, and letters + str(row)       *)
(* builds the record.                                                      *)
(***************************************************************************)
EXTENDS Integers, Sequences, FiniteSets, TLC

VARIABLES
    \* get_next_excel_column_name
    column_name, result, colPc,
    \* summarize_sheet_files
    row_number, last_cell_location, last_column_letter, cell, cell_location,
    elements_text, location, rowsSeen, cellsSeen, sumPc,
    \* build_shared_strings_map and replace_shared_strings_in_sheet
    shared_strings_xml, shared_strings, sheet_xml_content, modified_content, sstPc,
    \* compare_sheet_names
    sheet_names_from, sheet_names_to, contents_from, contents_to,
    added_sheets, removed_sheets, renamed_sheets, namesPc,
    \* compare_dirs and diff_files
    summaries_from, summaries_to, sheet, file_name, file_name_to,
    locations_from, locations_to, diff_list, diff_list_final, line_changes,
    change, offset, i, j, idx, differences, tempfiles, calls, dirPc

colVars == <<column_name, result, colPc>>
sumVars == <<row_number, last_cell_location, last_column_letter, cell,
             cell_location, elements_text, location, rowsSeen, cellsSeen, sumPc>>
sstVars == <<shared_strings_xml, shared_strings, sheet_xml_content,
             modified_content, sstPc>>
nameVars == <<sheet_names_from, sheet_names_to, contents_from, contents_to,
              added_sheets, removed_sheets, renamed_sheets, namesPc>>
dirVars == <<summaries_from, summaries_to, sheet, file_name, file_name_to,
             locations_from, locations_to, diff_list, diff_list_final,
             line_changes, change, offset, i, j, idx, differences, tempfiles,
             calls, dirPc>>
vars == <<colVars, sumVars, sstVars, nameVars, dirVars>>

\* Python's None and a value that is not None: an optional value is <<>> or <<x>>.
None == <<>>
Some(x) == <<x>>
Val(o) == o[1]

\* The number of letters of the alphabet (the 26 of lines 84 and 85).
Radix == 26

-----------------------------------------------------------------------------
(* Bounds *)

\* Longest column name given to get_next_excel_column_name.
MaxColLen == 2
\* Rows of a sheet, and cells of a row, the summarizer walks.
MaxRows == 2
MaxCells == 3
\* Entries of the shared-string table, and cells of the sheet that refers to it.
MaxStrings == 2
MaxSheetCells == 2
\* Sheets of a workbook, and lines of a sheet's summary, given to the matcher.
MaxSheets == 2
MaxContentLen == 2
\* Lines of a sheet whose diff is annotated, and sheets compare_dirs walks.
MaxLines == 2
MaxDirSheets == 2

-----------------------------------------------------------------------------
(* get_next_excel_column_name, lines 79-88 *)

Letters == 0 .. (Radix - 1)

RECURSIVE SeqsUpTo(_, _)
SeqsUpTo(S, n) ==
    IF n = 0 THEN {<<>>}
    ELSE LET shorter == SeqsUpTo(S, n - 1)
         IN shorter \cup {Append(s, x) : s \in {t \in shorter : Len(t) = n - 1}, x \in S}

\* The for loop over reversed(column_name): n letters are still to be read,
\* column_name[n] is the next one.
RECURSIVE next_column_loop(_, _, _, _)
next_column_loop(name, n, res, carry) ==
    IF n = 0 THEN [result |-> res, carry |-> carry]
    ELSE LET new_char_val == name[n] + carry
         IN next_column_loop(name, n - 1,
                             <<new_char_val % Radix>> \o res,
                             new_char_val \div Radix)

\* A successor that forgets the final carry (lines 86-87 left out).
get_next_without_carry(name) ==
    next_column_loop(name, Len(name), <<>>, 1).result

get_next_excel_column_name(name) ==
    LET r == next_column_loop(name, Len(name), <<>>, 1)
    IN IF r.carry # 0 THEN <<0>> \o r.result ELSE r.result



NextColumn ==
    /\ colPc = "call"
    /\ result' = Some(get_next_excel_column_name(column_name))
    /\ colPc' = "done"
    /\ UNCHANGED <<column_name, sumVars, sstVars, nameVars, dirVars>>

-----------------------------------------------------------------------------
(* summarize_sheet_files, lines 93-134: the walk over the rows and cells   *)
(* of one sheet.                                                           *)

\* Explicit r attributes of a row, and the columns of explicit cell references.
RowNumbers == 1 .. MaxRows
ExplicitColumns == {<<2>>, <<Radix - 1>>}
\* The text of a cell's first child: None, or a sequence of characters.
CellTexts == {None, Some(<<"x", "\n">>)}

Loc(col, row) == [col |-> col, row |-> row]

\* text.replace('\n', '\\n').replace('\r', '\\r') + "\n", line 128
RECURSIVE escape(_)
escape(text) ==
    IF text = <<>> THEN <<>>
    ELSE LET c == Head(text)
         IN (IF c = "\n" THEN <<"\\", "n">>
             ELSE IF c = "\r" THEN <<"\\", "r">>
             ELSE <<c>>) \o escape(Tail(text))



\* Lines 107-110: the next row of the sheet, with or without an r attribute.
NextRow ==
    /\ sumPc = "rows"
    /\ rowsSeen < MaxRows
    /\ \E r \in {None} \cup {Some(n) : n \in RowNumbers} :
          row_number' = IF r # None THEN Val(r) ELSE row_number + 1
    /\ last_cell_location' = None
    /\ last_column_letter' = None
    /\ rowsSeen' = rowsSeen + 1
    /\ cellsSeen' = 0
    /\ UNCHANGED <<cell, cell_location, elements_text, location, sumPc, colVars, sstVars, nameVars, dirVars>>

\* Lines 113-125: the location of a cell whose r attribute is r.
located(r) ==
    IF r # None
    THEN [cell_location |-> r, last_cell_location |-> r,
          last_column_letter |-> last_column_letter]
    ELSE IF last_cell_location # None
    THEN LET letter == get_next_excel_column_name(Val(last_cell_location).col)
         IN [cell_location |-> Some(Loc(letter, row_number)),
             last_cell_location |-> last_cell_location,
             last_column_letter |-> Some(letter)]
    ELSE [cell_location |-> Some(Loc(<<0>>, row_number)),
          last_cell_location |-> Some(Loc(<<0>>, row_number)),
          last_column_letter |-> Some(<<0>>)]

\* Lines 112-130: the next cell of the current row.
NextCell ==
    /\ sumPc = "rows"
    /\ rowsSeen > 0
    /\ cellsSeen < MaxCells
    /\ \E r \in {None} \cup {Some(Loc(c, row_number)) : c \in ExplicitColumns},
          text \in CellTexts :
          LET at == located(r)
          IN /\ cell' = Some([r |-> r, text |-> text])
             /\ cell_location' = at.cell_location
             /\ last_cell_location' = at.last_cell_location
             /\ last_column_letter' = at.last_column_letter
             /\ IF text # None
                THEN /\ elements_text' = Append(elements_text, escape(Val(text)) \o <<"\n">>)
                     /\ location' = Append(location, Val(at.cell_location))
                ELSE UNCHANGED <<elements_text, location>>
    /\ cellsSeen' = cellsSeen + 1
    /\ UNCHANGED <<row_number, rowsSeen, sumPc, colVars, sstVars, nameVars, dirVars>>

\* Line 132: the sheet has no more rows, its summary is stored.
StoreSummary ==
    /\ sumPc = "rows"
    /\ sumPc' = "done"
    /\ UNCHANGED <<row_number, last_cell_location, last_column_letter, cell,
                   cell_location, elements_text, location, rowsSeen, cellsSeen,
                   colVars, sstVars, nameVars, dirVars>>

-----------------------------------------------------------------------------
(* build_shared_strings_map, lines 14-25, and                              *)
(* replace_shared_strings_in_sheet, lines 27-39.                           *)
(*                                                                         *)
(* The shared-string part is the sequence of its si elements, each         *)
(* [t |-> None] (no t child) or [t |-> Some(text)], text being the         *)
(* optional text of the t child.  A sheet is the sequence of its c         *)
(* elements, each [t |-> type attribute, v |-> optional text of its v      *)
(* child] (None also when there is no v child).                            *)

StringTexts == {None, Some("x"), Some("1")}
SiElements == {[t |-> None]} \cup {[t |-> Some(text)] : text \in StringTexts}
CellTypes == {"s", "n"}
ValueTexts == {None, Some("0"), Some("1"), Some("2"), Some("x")}
SheetCells == [t : CellTypes, v : ValueTexts]

\* enumerate(tree.findall('si')): the k-th element has index k - 1.
build_shared_strings_map(xml) ==
    [index \in {k - 1 : k \in {n \in 1 .. Len(xml) : xml[n].t # None}} |->
        Val(xml[index + 1].t)]

\* int(v.text), line 35: the number a decimal text denotes; any other text
\* raises ValueError.
IsDecimal(text) == text \in {"0", "1", "2"}
int(text) == CASE text = "0" -> 0 [] text = "1" -> 1 [] text = "2" -> 2

\* Lines 32-37 for one c element: the cells the XPath c[@t="s"] selects get
\* the table's text when their index is a key of the table.
resolved_whatever_type(c, table) ==
    IF c.v # None /\ IsDecimal(Val(c.v)) /\ int(Val(c.v)) \in DOMAIN table
    THEN [c EXCEPT !.v = table[int(Val(c.v))]]
    ELSE c

resolved(c, table) ==
    IF c.t = "s" /\ c.v # None
    THEN LET index == int(Val(c.v))
         IN IF index \in DOMAIN table
            THEN [c EXCEPT !.v = table[index]]
            ELSE c
    ELSE c

\* Whether int() raises on a cell the loop visits.
raises(c) == c.t = "s" /\ c.v # None /\ ~IsDecimal(Val(c.v))

BuildMap ==
    /\ sstPc = "build"
    /\ shared_strings' = build_shared_strings_map(shared_strings_xml)
    /\ sstPc' = "replace"
    /\ UNCHANGED <<shared_strings_xml, sheet_xml_content, modified_content,
                   colVars, sumVars, nameVars, dirVars>>

ReplaceInSheet ==
    /\ sstPc = "replace"
    /\ IF \E k \in 1 .. Len(sheet_xml_content) : raises(sheet_xml_content[k])
       THEN /\ sstPc' = "error"
            /\ UNCHANGED modified_content
       ELSE /\ sstPc' = "done"
            /\ modified_content' =
                   [k \in 1 .. Len(sheet_xml_content) |->
                       resolved(sheet_xml_content[k], shared_strings)]
    /\ UNCHANGED <<shared_strings_xml, shared_strings, sheet_xml_content,
                   colVars, sumVars, nameVars, dirVars>>

-----------------------------------------------------------------------------
(* similarity, lines 225-226, and compare_sheet_names, lines 228-253.      *)
(*                                                                         *)
(* contents_from[name] is summaries_from[name][0], the lines of the sheet. *)

SheetNames == {"S1", "S2", "S3"}
Lines == {"x", "y"}
Contents == SeqsUpTo(Lines, MaxContentLen)

Range(seq) == {seq[k] : k \in 1 .. Len(seq)}
Min(a, b) == IF a < b THEN a ELSE b

\* SequenceMatcher.find_longest_match without junk: among the longest blocks
\* a[i .. i+k-1] = b[j .. j+k-1], the one that starts earliest in a and, of
\* those, earliest in b; <<1, 1, 0>> when no element matches.
find_longest_match(a, b) ==
    LET blocks == {m \in (1 .. Len(a)) \X (1 .. Len(b)) \X (1 .. Min(Len(a), Len(b))) :
                      /\ m[1] + m[3] - 1 <= Len(a)
                      /\ m[2] + m[3] - 1 <= Len(b)
                      /\ \A d \in 0 .. m[3] - 1 : a[m[1] + d] = b[m[2] + d]}
    IN IF blocks = {} THEN <<1, 1, 0>>
       ELSE CHOOSE m \in blocks :
              \A o \in blocks :
                 \/ m[3] > o[3]
                 \/ m[3] = o[3] /\ m[1] < o[1]
                 \/ m[3] = o[3] /\ m[1] = o[1] /\ m[2] <= o[2]

\* SequenceMatcher.get_matching_blocks: the longest match, then the same to
\* its left and to its right; the sum of the blocks' sizes.
RECURSIVE matches(_, _)
matches(a, b) ==
    LET m == find_longest_match(a, b)
    IN IF m[3] = 0 THEN 0
       ELSE m[3] + matches(SubSeq(a, 1, m[1] - 1), SubSeq(b, 1, m[2] - 1))
                 + matches(SubSeq(a, m[1] + m[3], Len(a)),
                           SubSeq(b, m[2] + m[3], Len(b)))

\* SequenceMatcher(None, content_from, content_to).ratio(): 2.0 * matches /
\* length, and 1.0 when both sequences are empty; kept as a fraction.
similarity(content_from, content_to) ==
    LET length == Len(content_from) + Len(content_to)
    IN IF length = 0 THEN [num |-> 1, den |-> 1]
       ELSE [num |-> 2 * matches(content_from, content_to), den |-> length]

\* ratio > 0.5, line 241
above_half(ratio) == 2 * ratio.num > ratio.den

\* Lines 238-244: the first name of names_to, in order, that differs from
\* name_from and whose content is similar enough; None when there is none.
RECURSIVE rename_target(_, _, _)
rename_target(name_from, names_to, to) ==
    IF names_to = <<>> THEN None
    ELSE LET name_to == Head(names_to)
         IN IF name_to # name_from
               /\ above_half(similarity(contents_from[name_from], to[name_to]))
            THEN Some(name_to)
            ELSE rename_target(name_from, Tail(names_to), to)

\* Lines 234-246: the loop over the old names, from the k-th on.
RECURSIVE removed_or_renamed(_, _, _)
removed_or_renamed(k, removed, renamed) ==
    IF k > Len(sheet_names_from) THEN [removed |-> removed, renamed |-> renamed]
    ELSE LET name_from == sheet_names_from[k]
         IN IF name_from \notin Range(sheet_names_to)
            THEN LET target == rename_target(name_from, sheet_names_to, contents_to)
                 IN IF target # None
                    THEN removed_or_renamed(k + 1, removed,
                                            Append(renamed, <<name_from, Val(target)>>))
                    ELSE removed_or_renamed(k + 1, Append(removed, name_from), renamed)
            ELSE removed_or_renamed(k + 1, removed, renamed)

\* Lines 249-251
added(renamed) ==
    SelectSeq(sheet_names_to,
              LAMBDA name_to : /\ name_to \notin Range(sheet_names_from)
                               /\ name_to \notin {pair[2] : pair \in Range(renamed)})

CompareSheetNames ==
    /\ namesPc = "call"
    /\ LET found == removed_or_renamed(1, <<>>, <<>>)
       IN /\ removed_sheets' = found.removed
          /\ renamed_sheets' = found.renamed
          /\ added_sheets' = added(found.renamed)
    /\ namesPc' = "done"
    /\ UNCHANGED <<sheet_names_from, sheet_names_to, contents_from, contents_to,
                   colVars, sumVars, sstVars, dirVars>>

-----------------------------------------------------------------------------
(* The external diff engine: git diff --no-index on the two temporary      *)
(* files, line 144.  A text is a sequence of characters.  The output of    *)
(* the engine is a sequence of lines ended by "\n", each a record:         *)
(*   [kind |-> "meta"]                  "diff --git ..." and "index ..."   *)
(*   [kind |-> "file", mark, text]      "--- ..." and "+++ ..."            *)
(*   [kind |-> "hunk", from_start, from_count, to_start, to_count]         *)
(*                                      "@@ -a,b +c,d @@", a count being   *)
(*                                      None when the header omits it      *)
(*   [kind |-> "body", mark, text]      a line of a hunk: mark "-", "+"    *)
(*                                      or " ", then the text              *)
(* The engine is free in which edit script it reports and in how much      *)
(* context it shows; every output below is a well-formed unified diff of   *)
(* the two files.                                                          *)

Ops == {"-", "+", " "}
OldSide(op) == op \in {"-", " "}
NewSide(op) == op \in {"+", " "}

\* How many of the first p operations of script s satisfy Side.
Count(s, p, Side(_)) == Cardinality({q \in 1 .. p : Side(s[q])})

\* The edit scripts that turn lines a into lines b: every line of a is
\* removed or kept, every line of b added or kept, a kept line being the same
\* text in both.
Scripts(a, b) ==
    {s \in SeqsUpTo(Ops, Len(a) + Len(b)) :
        /\ Count(s, Len(s), OldSide) = Len(a)
        /\ Count(s, Len(s), NewSide) = Len(b)
        /\ \A p \in 1 .. Len(s) :
              s[p] = " " => a[Count(s, p, OldSide)] = b[Count(s, p, NewSide)]}

\* The sets of operations an output may show: every change, and kept lines
\* only next to a change or to a shown kept line that is (each run of shown
\* operations holds a change).
Shown(s) ==
    LET changes == {p \in 1 .. Len(s) : s[p] # " "}
    IN {m \in SUBSET (1 .. Len(s)) :
          /\ changes \subseteq m
          /\ \A p \in m : \E c \in changes :
                \A q \in (IF p < c THEN p ELSE c) .. (IF p < c THEN c ELSE p) : q \in m}

\* A count as git writes it: omitted when it is 1.
Written(n) == IF n = 1 THEN None ELSE Some(n)

\* The hunk header for the run of shown operations lo .. hi of script s.
Header(s, lo, hi) ==
    LET from_count == Count(s, hi, OldSide) - Count(s, lo - 1, OldSide)
        to_count == Count(s, hi, NewSide) - Count(s, lo - 1, NewSide)
        from_before == Count(s, lo - 1, OldSide)
        to_before == Count(s, lo - 1, NewSide)
    IN [kind |-> "hunk",
        from_start |-> IF from_count = 0 THEN from_before ELSE from_before + 1,
        from_count |-> Written(from_count),
        to_start |-> IF to_count = 0 THEN to_before ELSE to_before + 1,
        to_count |-> Written(to_count)]

Body(s, p, a, b) ==
    [kind |-> "body", mark |-> s[p],
     text |-> IF s[p] = "+" THEN b[Count(s, p, NewSide)] ELSE a[Count(s, p, OldSide)]]

\* The hunks of script s showing the operations m, from operation p on.
RECURSIVE Hunks(_, _, _, _, _)
Hunks(s, m, p, a, b) ==
    IF p > Len(s) THEN <<>>
    ELSE IF p \notin m THEN Hunks(s, m, p + 1, a, b)
    ELSE LET hi == CHOOSE h \in p .. Len(s) :
                      /\ \A q \in p .. h : q \in m
                      /\ h + 1 \notin m
         IN (IF p - 1 \in m THEN <<>> ELSE <<Header(s, p, hi)>>)
            \o <<Body(s, p, a, b)>> \o Hunks(s, m, p + 1, a, b)

\* What git diff prints for two files that differ.
Stdout(s, m, a, b) ==
    <<[kind |-> "meta"], [kind |-> "meta"],
      [kind |-> "file", mark |-> "-", text |-> "a/tmp"],
      [kind |-> "file", mark |-> "+", text |-> "b/tmp"]>> \o Hunks(s, m, 1, a, b)

Diffs(a, b) == {Stdout(s, m, a, b) : <<s, m>> \in {sm \in Scripts(a, b) \X SUBSET (1 .. Len(a) + Len(b)) : sm[2] \in Shown(sm[1])}}

\* The runs of the engine on files a and b: status 0 and no output when they
\* are equal, status 1 and a diff when they differ, or a failure (status 2)
\* with whatever it had printed.
EngineRuns(a, b) ==
    (IF a = b THEN {[returncode |-> 0, stdout |-> <<>>]}
     ELSE {[returncode |-> 1, stdout |-> d] : d \in Diffs(a, b)})
    \cup {[returncode |-> 2, stdout |-> <<>>]}
    \cup {[returncode |-> 2, stdout |-> d] : d \in Diffs(a, b)}

-----------------------------------------------------------------------------
(* diff_files, lines 136-161 *)

\* The characters other than "\n" and "\r" (which line 127 escapes) at which
\* str.splitlines ends a line and which a cell text can hold: "LS" is
\* U+2028; U+2029 and U+0085 behave alike.
LineBoundaries == {"LS"}

\* The pieces str.splitlines(True) cuts a text into, the text being followed
\* by "\n": every piece but the last ends with a boundary, which it keeps;
\* the last one is what is left before the "\n" and may be empty.
RECURSIVE pieces(_, _)
pieces(text, piece) ==
    IF text = <<>> THEN <<piece>>
    ELSE IF Head(text) \in LineBoundaries
    THEN <<Append(piece, Head(text))>> \o pieces(Tail(text), <<>>)
    ELSE pieces(Tail(text), Append(piece, Head(text)))

\* Line 151: result.stdout.splitlines(True).  A line of a hunk whose text
\* holds a boundary becomes several elements of the list: the first keeps
\* the mark, the others ([kind |-> "rest", text]) are the rest of the text.
RECURSIVE splitlines(_)
splitlines(stdout) ==
    IF stdout = <<>> THEN <<>>
    ELSE LET line == Head(stdout)
         IN (IF line.kind = "body"
             THEN LET cut == pieces(line.text, <<>>)
                  IN <<[line EXCEPT !.text = cut[1]]>>
                     \o [k \in 1 .. Len(cut) - 1 |->
                            [kind |-> "rest", text |-> cut[k + 1]]]
             ELSE <<line>>)
            \o splitlines(Tail(stdout))

\* The two temporary files of the n-th call, line 138.
TempFiles(n) == {<<n, "file_from">>, <<n, "file_to">>}

Succeeded(returncode) == returncode \in {0, 1}

\* Lines 151-155: the lines of the output without the first two, the two
\* file lines replaced by the sheets' labels.
relabelled(stdout, file_from_name, file_to_name) ==
    LET lines == splitlines(stdout)
        diff_output == SubSeq(lines, 3, Len(lines))
    IN IF Len(diff_output) > 1
       THEN <<[kind |-> "file", mark |-> "-", text |-> file_from_name],
              [kind |-> "file", mark |-> "+", text |-> file_to_name]>>
            \o SubSeq(diff_output, 3, Len(diff_output))
       ELSE diff_output

\* A diff_files that returns the engine's output whatever its status.
diff_output_whatever_status(run, file_from_name, file_to_name) ==
    relabelled(run.stdout, file_from_name, file_to_name)

\* What diff_files returns, lines 147-161.
diff_output_of(run, file_from_name, file_to_name) ==
    IF ~Succeeded(run.returncode) THEN <<>>
    ELSE relabelled(run.stdout, file_from_name, file_to_name)

\* The temporary files that exist when diff_files returns: lines 158-159 are
\* not reached on the return of line 149.
files_left(run, created) ==
    IF ~Succeeded(run.returncode) THEN created ELSE {}

-----------------------------------------------------------------------------
(* compare_dirs, lines 163-223 *)

\* The character a line starts with.
first_char(line) ==
    CASE line.kind = "body" -> line.mark
      [] line.kind = "file" -> line.mark
      [] line.kind = "hunk" -> "@"
      [] line.kind = "note" -> "ESC"
      [] line.kind = "rest" -> IF line.text = <<>> THEN "\n" ELSE Head(line.text)
      [] OTHER -> "d"

\* A count that the header omits is 1 (lines 189 and 191); here it is 0.
count_or_zero(group) == IF group = None THEN 0 ELSE Val(group)

count_or_default(group) == IF group = None THEN 1 ELSE Val(group)

\* Lines 184-192: (from_start, from_count, to_start, to_count, index) of
\* every line of lines the hunk pattern matches, index counting from 0.
RECURSIVE parsed_changes(_, _)
parsed_changes(lines, k) ==
    IF k > Len(lines) THEN <<>>
    ELSE (IF lines[k].kind = "hunk"
          THEN <<[from_start |-> lines[k].from_start,
                  from_count |-> count_or_default(lines[k].from_count),
                  to_start |-> lines[k].to_start,
                  to_count |-> count_or_default(lines[k].to_count),
                  index |-> k - 1]>>
          ELSE <<>>) \o parsed_changes(lines, k + 1)

\* seq[lo:hi] of Python, lo and hi counting from 0 and from the end when
\* negative.
PySlice(seq, lo, hi) ==
    LET norm(x) == IF x < 0 THEN (IF x + Len(seq) < 0 THEN 0 ELSE x + Len(seq))
                   ELSE (IF x > Len(seq) THEN Len(seq) ELSE x)
    IN SubSeq(seq, norm(lo) + 1, norm(hi))

\* list.insert(at, x), at counting from 0 and not negative.
Inserted(seq, at, x) ==
    IF at >= Len(seq) THEN Append(seq, x)
    ELSE SubSeq(seq, 1, at) \o <<x>> \o SubSeq(seq, at + 1, Len(seq))

\* The hunk the loop of line 195 is at, and its slices of lines 197-198.
current == line_changes[change]

locations_from_subset ==
    PySlice(locations_from, current.from_start - 1,
            current.from_start - 1 + current.from_count)
locations_to_subset ==
    PySlice(locations_to, current.to_start - 1,
            current.to_start - 1 + current.to_count)

\* Line 205
first_idx(index_start, inserted) == index_start + inserted + 1

Note(old, new) == [kind |-> "note", old |-> old, new |-> new]

\* Lines 166-179: the next key of summaries_from; a removed sheet is skipped.
NextSheet ==
    /\ dirPc = "sheets"
    /\ sheet < Len(sheet_names_from)
    /\ LET name == sheet_names_from[sheet + 1]
           renames == {k \in 1 .. Len(renamed_sheets) : renamed_sheets[k][1] = name}
           index == IF renames = {} THEN None
                    ELSE Some(CHOOSE k \in renames : \A o \in renames : k <= o)
           name_to == IF name \notin Range(removed_sheets) /\ index # None
                      THEN renamed_sheets[Val(index)][2] ELSE name
       IN /\ file_name' = Some(name)
          /\ file_name_to' = Some(name_to)
          /\ IF name \in Range(removed_sheets)
             THEN /\ dirPc' = "sheets"
                  /\ UNCHANGED <<locations_from, locations_to>>
             ELSE IF name_to \notin DOMAIN summaries_to
             THEN /\ dirPc' = "IndexError"
                  /\ UNCHANGED <<locations_from, locations_to>>
             ELSE /\ dirPc' = "diff_files"
                  /\ locations_from' = summaries_from[name].locations
                  /\ locations_to' = summaries_to[name_to].locations
    /\ sheet' = sheet + 1
    /\ UNCHANGED <<summaries_from, summaries_to, diff_list, diff_list_final,
                   line_changes, change, offset, i, j, idx, differences,
                   tempfiles, calls, colVars, sumVars, sstVars, nameVars>>

\* Line 180: diff_files on the lines of the two sheets.
DiffFiles ==
    /\ dirPc = "diff_files"
    /\ \E run \in EngineRuns(summaries_from[Val(file_name)].lines,
                              summaries_to[Val(file_name_to)].lines) :
          /\ calls' = Append(calls, [file_from_name |-> Val(file_name),
                                     file_to_name |-> Val(file_name_to),
                                     returncode |-> run.returncode,
                                     stdout |-> run.stdout])
          /\ tempfiles' = tempfiles \cup files_left(run, TempFiles(Len(calls) + 1))
          /\ diff_list' = diff_output_of(run, Val(file_name), Val(file_name_to))
    /\ dirPc' = "parse"
    /\ UNCHANGED <<summaries_from, summaries_to, sheet, file_name, file_name_to,
                   locations_from, locations_to, diff_list_final, line_changes,
                   change, offset, i, j, idx, differences,
                   colVars, sumVars, sstVars, nameVars>>

\* Lines 181-194
ParseHunks ==
    /\ dirPc = "parse"
    /\ diff_list_final' = diff_list
    /\ line_changes' = parsed_changes(diff_list, 1)
    /\ offset' = 0
    /\ change' = 0
    /\ dirPc' = "changes"
    /\ UNCHANGED <<summaries_from, summaries_to, sheet, file_name, file_name_to,
                   locations_from, locations_to, diff_list, i, j, idx,
                   differences, tempfiles, calls,
                   colVars, sumVars, sstVars, nameVars>>

\* Lines 195-205: the next hunk.
NextChange ==
    /\ dirPc = "changes"
    /\ change < Len(line_changes)
    /\ change' = change + 1
    /\ i' = 0
    /\ j' = 0
    /\ idx' = first_idx(line_changes[change + 1].index, offset)
    /\ dirPc' = "while"
    /\ UNCHANGED <<summaries_from, summaries_to, sheet, file_name, file_name_to,
                   locations_from, locations_to, diff_list, diff_list_final,
                   line_changes, offset, differences, tempfiles, calls,
                   colVars, sumVars, sstVars, nameVars>>

\* Lines 206-219: one turn of the while loop; reading past the end of the
\* list or of a slice raises IndexError.
Annotate ==
    /\ dirPc = "while"
    /\ i < current.from_count \/ j < current.to_count
    /\ IF idx >= Len(diff_list_final)
       THEN /\ dirPc' = "IndexError"
            /\ UNCHANGED <<diff_list_final, i, j, idx, offset>>
       ELSE LET line == diff_list_final[idx + 1]
                olds == IF first_char(line) # "+" THEN 1 ELSE 0
                news == IF first_char(line) # "-" THEN 1 ELSE 0
            IN IF \/ olds = 1 /\ i >= Len(locations_from_subset)
                  \/ news = 1 /\ j >= Len(locations_to_subset)
               THEN /\ dirPc' = "IndexError"
                    /\ UNCHANGED <<diff_list_final, i, j, idx, offset>>
               ELSE /\ diff_list_final' =
                          Inserted(diff_list_final, idx,
                                   Note(IF olds = 1 THEN Some(locations_from_subset[i + 1])
                                        ELSE None,
                                        IF news = 1 THEN Some(locations_to_subset[j + 1])
                                        ELSE None))
                    /\ i' = i + olds
                    /\ j' = j + news
                    /\ idx' = idx + 2
                    /\ offset' = offset + 1
                    /\ dirPc' = "while"
    /\ UNCHANGED <<summaries_from, summaries_to, sheet, file_name, file_name_to,
                   locations_from, locations_to, diff_list, line_changes, change,
                   differences, tempfiles, calls,
                   colVars, sumVars, sstVars, nameVars>>

\* Line 206: the condition of the while loop is false.
EndChange ==
    /\ dirPc = "while"
    /\ ~(i < current.from_count \/ j < current.to_count)
    /\ dirPc' = "changes"
    /\ UNCHANGED <<summaries_from, summaries_to, sheet, file_name, file_name_to,
                   locations_from, locations_to, diff_list, diff_list_final,
                   line_changes, change, offset, i, j, idx, differences,
                   tempfiles, calls, colVars, sumVars, sstVars, nameVars>>

\* Line 221
ExtendDifferences ==
    /\ dirPc = "changes"
    /\ change = Len(line_changes)
    /\ differences' = differences \o diff_list_final
    /\ dirPc' = "sheets"
    /\ UNCHANGED <<summaries_from, summaries_to, sheet, file_name, file_name_to,
                   locations_from, locations_to, diff_list, diff_list_final,
                   line_changes, change, offset, i, j, idx, tempfiles, calls,
                   colVars, sumVars, sstVars, nameVars>>

\* Line 223
ReturnDifferences ==
    /\ dirPc = "sheets"
    /\ sheet = Len(sheet_names_from)
    /\ dirPc' = "done"
    /\ UNCHANGED <<summaries_from, summaries_to, sheet, file_name, file_name_to,
                   locations_from, locations_to, diff_list, diff_list_final,
                   line_changes, change, offset, i, j, idx, differences,
                   tempfiles, calls, colVars, sumVars, sstVars, nameVars>>

-----------------------------------------------------------------------------
(* Specifications: one for each part of the program, the variables of the  *)
(* other parts staying as they are.                                        *)

InitColumn ==
    /\ column_name \in SeqsUpTo(Letters, MaxColLen) \ {<<>>}
    /\ result = None
    /\ colPc = "call"
    /\ row_number = 0
    /\ last_cell_location = None
    /\ last_column_letter = None
    /\ cell = None
    /\ cell_location = None
    /\ elements_text = <<>>
    /\ location = <<>>
    /\ rowsSeen = 0
    /\ cellsSeen = 0
    /\ sumPc = "idle"
    /\ shared_strings_xml = <<>>
    /\ shared_strings = <<>>
    /\ sheet_xml_content = <<>>
    /\ modified_content = <<>>
    /\ sstPc = "idle"
    /\ sheet_names_from = <<>>
    /\ sheet_names_to = <<>>
    /\ contents_from = <<>>
    /\ contents_to = <<>>
    /\ added_sheets = <<>>
    /\ removed_sheets = <<>>
    /\ renamed_sheets = <<>>
    /\ namesPc = "idle"
    /\ summaries_from = <<>>
    /\ summaries_to = <<>>
    /\ sheet = 0
    /\ file_name = None
    /\ file_name_to = None
    /\ locations_from = <<>>
    /\ locations_to = <<>>
    /\ diff_list = <<>>
    /\ diff_list_final = <<>>
    /\ line_changes = <<>>
    /\ change = 0
    /\ offset = 0
    /\ i = 0
    /\ j = 0
    /\ idx = 0
    /\ differences = <<>>
    /\ tempfiles = {}
    /\ calls = <<>>
    /\ dirPc = "idle"

SpecColumn == InitColumn /\ [][NextColumn]_vars

InitSummarize ==
    /\ column_name = <<>>
    /\ result = None
    /\ colPc = "idle"
    /\ row_number = 0
    /\ last_cell_location = None
    /\ last_column_letter = None
    /\ cell = None
    /\ cell_location = None
    /\ elements_text = <<>>
    /\ location = <<>>
    /\ rowsSeen = 0
    /\ cellsSeen = 0
    /\ sumPc = "rows"
    /\ shared_strings_xml = <<>>
    /\ shared_strings = <<>>
    /\ sheet_xml_content = <<>>
    /\ modified_content = <<>>
    /\ sstPc = "idle"
    /\ sheet_names_from = <<>>
    /\ sheet_names_to = <<>>
    /\ contents_from = <<>>
    /\ contents_to = <<>>
    /\ added_sheets = <<>>
    /\ removed_sheets = <<>>
    /\ renamed_sheets = <<>>
    /\ namesPc = "idle"
    /\ summaries_from = <<>>
    /\ summaries_to = <<>>
    /\ sheet = 0
    /\ file_name = None
    /\ file_name_to = None
    /\ locations_from = <<>>
    /\ locations_to = <<>>
    /\ diff_list = <<>>
    /\ diff_list_final = <<>>
    /\ line_changes = <<>>
    /\ change = 0
    /\ offset = 0
    /\ i = 0
    /\ j = 0
    /\ idx = 0
    /\ differences = <<>>
    /\ tempfiles = {}
    /\ calls = <<>>
    /\ dirPc = "idle"

NextSummarize == NextRow \/ NextCell \/ StoreSummary
SpecSummarize == InitSummarize /\ [][NextSummarize]_vars

InitStrings ==
    /\ column_name = <<>>
    /\ result = None
    /\ colPc = "idle"
    /\ row_number = 0
    /\ last_cell_location = None
    /\ last_column_letter = None
    /\ cell = None
    /\ cell_location = None
    /\ elements_text = <<>>
    /\ location = <<>>
    /\ rowsSeen = 0
    /\ cellsSeen = 0
    /\ sumPc = "idle"
    /\ shared_strings_xml \in SeqsUpTo(SiElements, MaxStrings)
    /\ shared_strings = <<>>
    /\ sheet_xml_content \in SeqsUpTo(SheetCells, MaxSheetCells)
    /\ modified_content = <<>>
    /\ sstPc = "build"
    /\ sheet_names_from = <<>>
    /\ sheet_names_to = <<>>
    /\ contents_from = <<>>
    /\ contents_to = <<>>
    /\ added_sheets = <<>>
    /\ removed_sheets = <<>>
    /\ renamed_sheets = <<>>
    /\ namesPc = "idle"
    /\ summaries_from = <<>>
    /\ summaries_to = <<>>
    /\ sheet = 0
    /\ file_name = None
    /\ file_name_to = None
    /\ locations_from = <<>>
    /\ locations_to = <<>>
    /\ diff_list = <<>>
    /\ diff_list_final = <<>>
    /\ line_changes = <<>>
    /\ change = 0
    /\ offset = 0
    /\ i = 0
    /\ j = 0
    /\ idx = 0
    /\ differences = <<>>
    /\ tempfiles = {}
    /\ calls = <<>>
    /\ dirPc = "idle"

NextStrings == BuildMap \/ ReplaceInSheet
SpecStrings == InitStrings /\ [][NextStrings]_vars

\* The names of a workbook's sheets: the keys of its summaries.
NameLists == {names \in SeqsUpTo(SheetNames, MaxSheets) :
                 \A p, q \in 1 .. Len(names) : p # q => names[p] # names[q]}

InitNames ==
    /\ column_name = <<>>
    /\ result = None
    /\ colPc = "idle"
    /\ row_number = 0
    /\ last_cell_location = None
    /\ last_column_letter = None
    /\ cell = None
    /\ cell_location = None
    /\ elements_text = <<>>
    /\ location = <<>>
    /\ rowsSeen = 0
    /\ cellsSeen = 0
    /\ sumPc = "idle"
    /\ shared_strings_xml = <<>>
    /\ shared_strings = <<>>
    /\ sheet_xml_content = <<>>
    /\ modified_content = <<>>
    /\ sstPc = "idle"
    /\ sheet_names_from \in NameLists
    /\ sheet_names_to \in NameLists
    /\ contents_from \in [Range(sheet_names_from) -> Contents]
    /\ contents_to \in [Range(sheet_names_to) -> Contents]
    /\ added_sheets = <<>>
    /\ removed_sheets = <<>>
    /\ renamed_sheets = <<>>
    /\ namesPc = "call"
    /\ summaries_from = <<>>
    /\ summaries_to = <<>>
    /\ sheet = 0
    /\ file_name = None
    /\ file_name_to = None
    /\ locations_from = <<>>
    /\ locations_to = <<>>
    /\ diff_list = <<>>
    /\ diff_list_final = <<>>
    /\ line_changes = <<>>
    /\ change = 0
    /\ offset = 0
    /\ i = 0
    /\ j = 0
    /\ idx = 0
    /\ differences = <<>>
    /\ tempfiles = {}
    /\ calls = <<>>
    /\ dirPc = "idle"

SpecNames == InitNames /\ [][CompareSheetNames]_vars

\* The texts of a cell: two plain ones and one that holds a line boundary.
Texts == {<<"x">>, <<"y">>, <<"x", "LS", "y">>}

\* summaries[name] = [elements_text, location] of a sheet with the given
\* lines, its cells being in the given column of rows 1, 2, ...
Summary(lines, column) ==
    [lines |-> lines, locations |-> [k \in 1 .. Len(lines) |-> Loc(column, k)]]

\* One sheet, present in both workbooks under the same name.
InitAnnotate ==
    /\ column_name = <<>>
    /\ result = None
    /\ colPc = "idle"
    /\ row_number = 0
    /\ last_cell_location = None
    /\ last_column_letter = None
    /\ cell = None
    /\ cell_location = None
    /\ elements_text = <<>>
    /\ location = <<>>
    /\ rowsSeen = 0
    /\ cellsSeen = 0
    /\ sumPc = "idle"
    /\ shared_strings_xml = <<>>
    /\ shared_strings = <<>>
    /\ sheet_xml_content = <<>>
    /\ modified_content = <<>>
    /\ sstPc = "idle"
    /\ sheet_names_from = <<"S1">>
    /\ sheet_names_to = <<"S1">>
    /\ contents_from = <<>>
    /\ contents_to = <<>>
    /\ added_sheets = <<>>
    /\ removed_sheets = <<>>
    /\ renamed_sheets = <<>>
    /\ namesPc = "idle"
    /\ summaries_from \in {[n \in {"S1"} |-> Summary(a, <<0>>)] :
                               a \in SeqsUpTo(Texts, MaxLines)}
    /\ summaries_to \in {[n \in {"S1"} |-> Summary(b, <<1>>)] :
                             b \in SeqsUpTo(Texts, MaxLines)}
    /\ sheet = 0
    /\ file_name = None
    /\ file_name_to = None
    /\ locations_from = <<>>
    /\ locations_to = <<>>
    /\ diff_list = <<>>
    /\ diff_list_final = <<>>
    /\ line_changes = <<>>
    /\ change = 0
    /\ offset = 0
    /\ i = 0
    /\ j = 0
    /\ idx = 0
    /\ differences = <<>>
    /\ tempfiles = {}
    /\ calls = <<>>
    /\ dirPc = "sheets"

NextDirs ==
    \/ NextSheet
    \/ DiffFiles
    \/ ParseHunks
    \/ NextChange
    \/ Annotate
    \/ EndChange
    \/ ExtendDifferences
    \/ ReturnDifferences

SpecAnnotate == InitAnnotate /\ [][NextDirs]_vars

\* The sheets of the old workbook, the names renamed sheets have in the new
\* one, and the lines of a sheet.
DirNames == <<"S1", "S2", "S3">>
NewName == [S1 |-> "T1", S2 |-> "T2", S3 |-> "T3"]
DirContents == {<<>>, <<<<"x">>>>, <<<<"x", "LS", "y">>>>}
Kinds == {"retained", "removed", "renamed"}

\* Up to MaxDirSheets sheets, each retained, removed or renamed, as
\* compare_sheet_names classifies them (lines 262-264 and 279).
InitDirs ==
    /\ \E n \in 0 .. MaxDirSheets :
          \E kind \in [{DirNames[k] : k \in 1 .. n} -> Kinds] :
             LET names == SubSeq(DirNames, 1, n)
                 renamed == SelectSeq(names, LAMBDA name : kind[name] = "renamed")
                 kept == SelectSeq(names, LAMBDA name : kind[name] # "removed")
             IN /\ sheet_names_from = names
                /\ removed_sheets = SelectSeq(names, LAMBDA name : kind[name] = "removed")
                /\ renamed_sheets = [k \in 1 .. Len(renamed) |->
                                        <<renamed[k], NewName[renamed[k]]>>]
                /\ sheet_names_to = [k \in 1 .. Len(kept) |->
                                        IF kind[kept[k]] = "renamed"
                                        THEN NewName[kept[k]] ELSE kept[k]]
    /\ column_name = <<>>
    /\ result = None
    /\ colPc = "idle"
    /\ row_number = 0
    /\ last_cell_location = None
    /\ last_column_letter = None
    /\ cell = None
    /\ cell_location = None
    /\ elements_text = <<>>
    /\ location = <<>>
    /\ rowsSeen = 0
    /\ cellsSeen = 0
    /\ sumPc = "idle"
    /\ shared_strings_xml = <<>>
    /\ shared_strings = <<>>
    /\ sheet_xml_content = <<>>
    /\ modified_content = <<>>
    /\ sstPc = "idle"
    /\ contents_from = <<>>
    /\ contents_to = <<>>
    /\ added_sheets = <<>>
    /\ namesPc = "idle"
    /\ summaries_from \in [Range(sheet_names_from) ->
                               {Summary(a, <<0>>) : a \in DirContents}]
    /\ summaries_to \in [Range(sheet_names_to) ->
                             {Summary(b, <<1>>) : b \in DirContents}]
    /\ sheet = 0
    /\ file_name = None
    /\ file_name_to = None
    /\ locations_from = <<>>
    /\ locations_to = <<>>
    /\ diff_list = <<>>
    /\ diff_list_final = <<>>
    /\ line_changes = <<>>
    /\ change = 0
    /\ offset = 0
    /\ i = 0
    /\ j = 0
    /\ idx = 0
    /\ differences = <<>>
    /\ tempfiles = {}
    /\ calls = <<>>
    /\ dirPc = "sheets"

SpecDirs == InitDirs /\ [][NextDirs]_vars

-----
(* Column names as numbers *)

\* The value of a column name in bijective base 26: A = 1 ... Z = 26, AA = 27.
RECURSIVE ColumnValue(_)
ColumnValue(name) ==
    IF name = <<>> THEN 0
    ELSE Radix * ColumnValue(SubSeq(name, 1, Len(name) - 1)) + name[Len(name)] + 1

OnlyZ(name) == \A k \in 1 .. Len(name) : name[k] = Radix - 1

\* C10: get_next_excel_column_name is the successor of bijective base-26
\* column names: its result is a non-empty string of letters A-Z whose value is
\* the argument's value plus one, and it is one letter longer than the argument
\* exactly when the argument consists only of Z (otherwise as long).
C10_ColumnSuccessor ==
    colPc = "done" =>
        LET r == Val(result)
        IN /\ Len(r) >= 1
           /\ \A k \in 1 .. Len(r) : r[k] \in Letters
           /\ ColumnValue(r) = ColumnValue(column_name) + 1
           /\ Len(r) = IF OnlyZ(column_name) THEN Len(column_name) + 1
                       ELSE Len(column_name)

\* "ZZ" has become "AAA".
C10_Witness ==
    /\ colPc = "done"
    /\ column_name = <<Radix - 1, Radix - 1>>
    /\ Val(result) = <<0, 0, 0>>

-----------------------------------------------------------------------------
(* Reconstructed cell locations *)

\* C1: a cell without an r attribute gets column A of the current row when it
\* is the first cell of its row, and otherwise the column after the one of the
\* cell just before it in the row (whether that cell's location was explicit or
\* reconstructed), with the current row number.
C1_LocationFollowsPreviousCell ==
    [][(sumPc = "rows" /\ cellsSeen' = cellsSeen + 1 /\ Val(cell').r = None) =>
        cell_location' =
            Some(Loc(IF cellsSeen = 0 THEN <<0>>
                     ELSE get_next_excel_column_name(Val(cell_location).col),
                     row_number))]_vars

-----------------------------------------------------------------------------
(* Shared strings *)

SharedCells == {k \in 1 .. Len(sheet_xml_content) :
                   sheet_xml_content[k].t = "s" /\ sheet_xml_content[k].v # None}

\* C7: after replace_shared_strings_in_sheet, a shared-string cell whose value
\* is the index i holds table[i] when i is a key of the table and its original
\* index text when it is not; every other cell is as it was; the table is the
\* one that was built; and an error is raised only for a shared-string cell
\* whose value is no index.
C7_SharedStringsResolved ==
    /\ sstPc = "done" =>
          /\ Len(modified_content) = Len(sheet_xml_content)
          /\ \A k \in 1 .. Len(sheet_xml_content) :
                LET c == sheet_xml_content[k]
                    m == modified_content[k]
                IN /\ m.t = c.t
                   /\ IF k \in SharedCells
                      THEN LET index == int(Val(c.v))
                           IN IF index \in DOMAIN shared_strings
                              THEN m.v = shared_strings[index]
                              ELSE m.v = c.v
                      ELSE m.v = c.v
    /\ sstPc \in {"done", "error"} =>
          /\ DOMAIN shared_strings =
                {n \in 0 .. Len(shared_strings_xml) - 1 : shared_strings_xml[n + 1].t # None}
          /\ \A n \in DOMAIN shared_strings :
                shared_strings[n] = Val(shared_strings_xml[n + 1].t)
    /\ sstPc = "error" =>
          \E k \in SharedCells : ~IsDecimal(Val(sheet_xml_content[k].v))

\* One sheet with a cell whose index is in the table, now holding the table's
\* text, and a cell whose index is not, still holding its index.
C7_Witness ==
    /\ sstPc = "done"
    /\ \E k \in SharedCells :
          /\ int(Val(sheet_xml_content[k].v)) \in DOMAIN shared_strings
          /\ modified_content[k].v = Some("x")
    /\ \E k \in SharedCells :
          /\ int(Val(sheet_xml_content[k].v)) \notin DOMAIN shared_strings
          /\ modified_content[k].v = sheet_xml_content[k].v

-----------------------------------------------------------------------------
(* Sheet classification *)

NamesFrom == Range(sheet_names_from)
NamesTo == Range(sheet_names_to)
RenamedFrom == {pair[1] : pair \in Range(renamed_sheets)}
RenamedTo == {pair[2] : pair \in Range(renamed_sheets)}

ExactlyOne(a, b, c) == (a /\ ~b /\ ~c) \/ (~a /\ b /\ ~c) \/ (~a /\ ~b /\ c)

\* C2: compare_sheet_names puts every old name in exactly one of retained,
\* renamed-from and removed, and every new name in exactly one of retained,
\* rename target and added; a rename target is never a name of the old workbook.
C2_ExactlyOneClass ==
    namesPc = "done" =>
        /\ \A n \in NamesFrom :
              ExactlyOne(n \in NamesTo, n \in RenamedFrom, n \in Range(removed_sheets))
        /\ \A n \in NamesTo :
              ExactlyOne(n \in NamesFrom, n \in RenamedTo, n \in Range(added_sheets))
        /\ RenamedTo \cap NamesFrom = {}

\* C3: in renamed_sheets no new name is the target of two pairs and no old
\* name is the source of two pairs.
C3_TargetClaimedOnce ==
    namesPc = "done" =>
        \A p, q \in 1 .. Len(renamed_sheets) :
            p # q => /\ renamed_sheets[p][2] # renamed_sheets[q][2]
                     /\ renamed_sheets[p][1] # renamed_sheets[q][1]

\* The workbooks differ only in the name of one sheet: one old-only name, one
\* new-only name, and every other sheet with the same content in both.
OneSheetRenamed ==
    /\ Cardinality(NamesFrom \ NamesTo) = 1
    /\ Cardinality(NamesTo \ NamesFrom) = 1
    /\ \A n \in NamesFrom \cap NamesTo : contents_from[n] = contents_to[n]

\* C6: when exactly one sheet S has another name S' in the new workbook, the
\* result is the single renamed pair (S, S') with nothing removed or added if
\* the old content of S and the new content of S' are more than 0.5 similar,
\* and S removed, S' added and no renamed pair if they are not, whatever the
\* retained sheets hold; when the name sets are equal, all three lists are empty.
C6_SingleRename ==
    namesPc = "done" =>
        /\ OneSheetRenamed =>
              LET S == CHOOSE n \in NamesFrom : n \notin NamesTo
                  T == CHOOSE n \in NamesTo : n \notin NamesFrom
              IN IF above_half(similarity(contents_from[S], contents_to[T]))
                 THEN /\ renamed_sheets = <<<<S, T>>>>
                      /\ removed_sheets = <<>>
                      /\ added_sheets = <<>>
                 ELSE /\ renamed_sheets = <<>>
                      /\ removed_sheets = <<S>>
                      /\ added_sheets = <<T>>
        /\ NamesFrom = NamesTo =>
              /\ renamed_sheets = <<>>
              /\ removed_sheets = <<>>
              /\ added_sheets = <<>>

-----------------------------------------------------------------------------
(* Annotated hunks *)

IsHunk(line) == line.kind = "hunk"
IsBody(line) == line.kind = "body"
IsNote(line) == line.kind = "note"
NotNote(line) == line.kind # "note"

\* The position of the header that opens the hunk holding position p of f.
HeaderBefore(f, p) ==
    CHOOSE q \in 1 .. p : IsHunk(f[q]) /\ \A r \in q + 1 .. p : ~IsHunk(f[r])

\* How many body lines of f at positions lo .. hi have their mark in marks.
BodyLines(f, lo, hi, marks) ==
    Cardinality({q \in lo .. hi : IsBody(f[q]) /\ f[q].mark \in marks})

\* The annotation of the diff of the current sheet pair is complete.
Annotated ==
    \/ dirPc = "changes" /\ change = Len(line_changes)
    \/ dirPc \in {"sheets", "done"}

\* C4: once a sheet pair's diff is annotated, every body line of every hunk is
\* immediately preceded by one annotation line, which names the old location
\* locations_from[from_start - 1 + k] of the k-th old-side line of the hunk
\* (removal or context, k from 0) and the new location
\* locations_to[to_start - 1 + k] of the k-th new-side line (addition or
\* context): a removal shows only the old one, an addition only the new one, a
\* context line both.  No other line is annotated, and without the annotation
\* lines the list is the diff as it was.
C4_EveryBodyLineAnnotated ==
    Annotated =>
        LET f == diff_list_final
        IN /\ SelectSeq(f, NotNote) = diff_list
           /\ \A p \in 1 .. Len(f) :
                 IsNote(f[p]) => p < Len(f) /\ IsBody(f[p + 1])
           /\ \A p \in 1 .. Len(f) :
                 IsBody(f[p]) =>
                    LET h == HeaderBefore(f, p)
                        old == f[h].from_start + BodyLines(f, h, p - 1, {"-", " "})
                        new == f[h].to_start + BodyLines(f, h, p - 1, {"+", " "})
                    IN /\ f[p].mark \in {"-", " "} => old \in 1 .. Len(locations_from)
                       /\ f[p].mark \in {"+", " "} => new \in 1 .. Len(locations_to)
                       /\ f[p - 1] =
                             Note(IF f[p].mark \in {"-", " "}
                                  THEN Some(locations_from[old]) ELSE None,
                                  IF f[p].mark \in {"+", " "}
                                  THEN Some(locations_to[new]) ELSE None)

\* The k-th hunk header of f.
HunkPosition(f, k) ==
    CHOOSE p \in 1 .. Len(f) :
        IsHunk(f[p]) /\ Cardinality({q \in 1 .. p : IsHunk(f[q])}) = k

\* The last line of the hunk whose header is at position p of f.
HunkEnd(f, p) ==
    IF \E q \in p + 1 .. Len(f) : IsHunk(f[q])
    THEN (CHOOSE q \in p + 1 .. Len(f) :
             IsHunk(f[q]) /\ \A r \in p + 1 .. q - 1 : ~IsHunk(f[r])) - 1
    ELSE Len(f)

\* The count a header states: 1 when it omits it.
Stated(count) == IF count = None THEN 1 ELSE Val(count)

\* The hunk whose header is at position p of f holds as many old-side and
\* new-side lines as the header states, a line that starts with neither "-"
\* nor "+" counting on both sides.
WellFormed(f, p) ==
    LET body == p + 1 .. HunkEnd(f, p)
    IN /\ Cardinality({q \in body : first_char(f[q]) # "+"}) = Stated(f[p].from_count)
       /\ Cardinality({q \in body : first_char(f[q]) # "-"}) = Stated(f[p].to_count)

\* C5: on every hunk that holds as many old-side and new-side lines as its
\* header states (a context line counting on both sides, an omitted count
\* being 1, a count of 0 allowed), the cursor walk never reads past the end
\* of a slice or of the list, keeps both cursors within their counts, ends
\* with the old cursor at from_count and the new cursor at to_count, and has
\* inserted into the hunk from_count + to_count minus the number of its
\* context lines annotation lines.
C5_CursorWalk ==
    /\ (dirPc \in {"while", "IndexError"}
            /\ WellFormed(diff_list, current.index + 1)) =>
          /\ dirPc = "while"
          /\ i <= current.from_count
          /\ j <= current.to_count
          /\ idx <= Len(diff_list_final)
    /\ (dirPc = "changes" /\ change >= 1) =>
          /\ WellFormed(diff_list, current.index + 1) =>
                /\ i = Stated(diff_list[current.index + 1].from_count)
                /\ j = Stated(diff_list[current.index + 1].to_count)
          /\ \A k \in 1 .. change :
                WellFormed(diff_list, line_changes[k].index + 1) =>
                   LET header == diff_list[line_changes[k].index + 1]
                       p == HunkPosition(diff_list_final, k)
                       e == HunkEnd(diff_list_final, p)
                   IN Cardinality({q \in p .. e : IsNote(diff_list_final[q])}) =
                         Stated(header.from_count) + Stated(header.to_count)
                         - BodyLines(diff_list_final, p, e, {" "})

\* The walk of a hunk whose header omits the old count and which holds a
\* context line has ended.
C5_Witness ==
    /\ dirPc = "changes"
    /\ change = 1
    /\ WellFormed(diff_list, current.index + 1)
    /\ diff_list[current.index + 1].from_count = None
    /\ i = 1
    /\ j = 2
    /\ BodyLines(diff_list_final, 1, Len(diff_list_final), {" "}) = 1
    /\ offset = 2

-----------------------------------------------------------------------------
(* Engine failures *)

\* C8: no temporary file of diff_files exists once it has returned, whatever
\* status the engine returned.
C8_TempFilesRemoved == tempfiles = {}

\* The new name a sheet is compared with.
Target(name) ==
    IF \E k \in 1 .. Len(renamed_sheets) : renamed_sheets[k][1] = name
    THEN renamed_sheets[CHOOSE k \in 1 .. Len(renamed_sheets) :
                           renamed_sheets[k][1] = name][2]
    ELSE name

NotRemoved(name) == name \notin Range(removed_sheets)

\* The diffs of the first n runs of the engine that succeeded, one after the
\* other.
RECURSIVE SucceededOutput(_)
SucceededOutput(n) ==
    IF n = 0 THEN <<>>
    ELSE SucceededOutput(n - 1) \o
         (IF Succeeded(calls[n].returncode)
          THEN relabelled(calls[n].stdout, calls[n].file_from_name, calls[n].file_to_name)
          ELSE <<>>)

\* C9: compare_dirs runs the engine on every sheet that is not removed, in
\* order and against its new name, and on no removed sheet; it goes on after
\* a run whose status is neither 0 nor 1 (no exception follows such a run);
\* and its result holds, apart from annotation lines, each of them followed
\* by the line of a diff that it annotates, exactly the diffs of the runs
\* that succeeded: a failed run adds no line.
C9_FailedPairAddsNothing ==
    /\ dirPc = "IndexError" => Succeeded(calls[Len(calls)].returncode)
    /\ dirPc \notin {"done", "IndexError"} => ENABLED NextDirs
    /\ dirPc = "done" =>
          LET kept == SelectSeq(sheet_names_from, NotRemoved)
          IN /\ [k \in 1 .. Len(calls) |->
                    <<calls[k].file_from_name, calls[k].file_to_name>>]
                   = [k \in 1 .. Len(kept) |-> <<kept[k], Target(kept[k])>>]
             /\ SelectSeq(differences, NotNote) = SucceededOutput(Len(calls))
             /\ \A p \in 1 .. Len(differences) :
                   IsNote(differences[p]) =>
                      /\ p < Len(differences)
                      /\ differences[p + 1].kind \in {"body", "rest"}

\* The engine failed on one pair after printing a diff, and the next pair's
\* diff is in the result.
C9_Witness ==
    /\ dirPc = "done"
    /\ Len(calls) = 2
    /\ ~Succeeded(calls[1].returncode)
    /\ calls[1].stdout # <<>>
    /\ calls[2].returncode = 1
    /\ Len(SelectSeq(differences, IsBody)) = 1
    /\ differences[1].text = calls[2].file_from_name

=============================================================================
